---- MODULE Spec2Model ----
(***************************************************************************)
(* lex-flow: an incremental JSON tokenizer (Lexer) and the state machine   *)
(* that extracts the elements of the top-level "results" array             *)
(* (StreamingJSONParser).                                                  *)
(*                                                                         *)
(* Text is a sequence of one-character strings.  Positions are 0-based as  *)
(* in the source: the character at position p of buf is buf[p + 1].        *)
(* A decoded string value is a sequence of UTF-16 code units (integers).   *)
(***************************************************************************)
EXTENDS Integers, Sequences, FiniteSets, TLC

VARIABLES
    doc,          \* environment: the whole text the source will deliver
    fed,          \* environment: how many characters of doc were delivered
    buffer,       \* Lexer.buffer
    position,     \* Lexer.position
    state,        \* StreamingJSONParser.state
    entries,      \* the values passed to onNewEntry so far, in call order; for
                  \* the Lexer on its own, the tokens nextToken has returned
    pc,           \* "idle": between parseChunk calls; "drain": inside its loop;
                  \* for the one-shot Parser, "returned" or "threw" after parse
    chunks,       \* history: how many fragments were delivered, up to ChunkCap
    mismatch,     \* history: a step met a token its state does not accept
    decodeFailed, \* history: JSON.parse rejected a collected slice
    callPos,      \* history: Lexer.position just before the last nextToken
    lastToken,    \* history: what the last direct nextToken call returned
    lastNull      \* history: the cursor and the buffer length left by the last
                  \* direct nextToken call that returned null

vars == <<doc, fed, buffer, position, state, entries, pc, chunks, mismatch,
          decodeFailed, callPos, lastToken, lastNull>>

Min(a, b) == IF a < b THEN a ELSE b

(***************************************************************************)
(* Characters.  Printable lists the characters of codes 32..126 in code    *)
(* order; the grave accent (96) is not used by any text of the model and   *)
(* its place is held by a name.                                            *)
(***************************************************************************)
Printable ==
    <<" ", "!", "\"", "#", "$", "%", "&", "'", "(", ")", "*", "+", ",", "-",
      ".", "/", "0", "1", "2", "3", "4", "5", "6", "7", "8", "9", ":", ";",
      "<", "=", ">", "?", "@", "A", "B", "C", "D", "E", "F", "G", "H", "I",
      "J", "K", "L", "M", "N", "O", "P", "Q", "R", "S", "T", "U", "V", "W",
      "X", "Y", "Z", "[", "\\", "]", "^", "_", "grave", "a", "b", "c", "d", "e",
      "f", "g", "h", "i", "j", "k", "l", "m", "n", "o", "p", "q", "r", "s",
      "t", "u", "v", "w", "x", "y", "z", "{", "|", "}", "~">>

\* The UTF-16 code unit of a character of the text.
CharCodeMap ==
    [c \in {Printable[i] : i \in 1..Len(Printable)} |->
        31 + (CHOOSE i \in 1..Len(Printable) : Printable[i] = c)]

CharCode(c) ==
    CASE c = "\t" -> 9
      [] c = "\n" -> 10
      [] c = "\r" -> 13
      [] OTHER -> CharCodeMap[c]

RECURSIVE CodesOf(_)
CodesOf(s) == IF s = <<>> THEN <<>> ELSE <<CharCode(Head(s))>> \o CodesOf(Tail(s))

IsDigit(ch) == ch \in {"0", "1", "2", "3", "4", "5", "6", "7", "8", "9"}

DigitVal(ch) == CharCode(ch) - 48

IsHexDigit(ch) ==
    \/ IsDigit(ch)
    \/ ch \in {"a", "b", "c", "d", "e", "f", "A", "B", "C", "D", "E", "F"}

HexVal(ch) ==
    IF IsDigit(ch) THEN DigitVal(ch)
    ELSE IF ch \in {"a", "b", "c", "d", "e", "f"} THEN CharCode(ch) - 87
    ELSE CharCode(ch) - 55

\* /\s/ on the characters the model's texts are made of.
IsWhitespace(ch) == ch \in {" ", "\t", "\n", "\r"}

At(buf, p) == buf[p + 1]

\* String.prototype.slice(a, b) for 0 <= a: clamps b to the length.
Slice(buf, a, b) == SubSeq(buf, a + 1, Min(b, Len(buf)))

(***************************************************************************)
(* Tokens.  Every token carries all payload fields so that any two tokens  *)
(* can be compared: str is the value of a string token, num the value of a *)
(* number token as <<m, e>> meaning m * 10^e in lowest terms, lit the      *)
(* literal of a value token.  Null stands for the null return.             *)
(***************************************************************************)
Tok(t) == [type |-> t, str |-> <<>>, num |-> <<0, 0>>, lit |-> ""]
Null == Tok("none")
StringToken(v) == [Tok("string") EXCEPT !.str = v]
NumberToken(v) == [Tok("number") EXCEPT !.num = v]
ValueToken(l) == [Tok("value") EXCEPT !.lit = l]

(***************************************************************************)
(* With(v, Body) is Body(v): it names a value once, where LET would stand  *)
(* for the defining expression at every use.                               *)
(***************************************************************************)
With(v, Body(_)) == Body(v)

(***************************************************************************)
(* Number(numStr): the value of a decimal literal, NaN for anything else.  *)
(***************************************************************************)
RECURSIVE DigitRun(_, _)
\* The end of the run of digits of s that starts at 0-based index i.
DigitRun(s, i) == IF i < Len(s) /\ IsDigit(At(s, i)) THEN DigitRun(s, i + 1) ELSE i

RECURSIVE DigitsValue(_, _, _, _)
\* The value of the digits s[a..b), continuing from acc.
DigitsValue(s, a, b, acc) ==
    IF a >= b THEN acc ELSE DigitsValue(s, a + 1, b, acc * 10 + DigitVal(At(s, a)))

RECURSIVE Normalize(_, _)
Normalize(m, e) ==
    IF m = 0 THEN <<0, 0>>
    ELSE IF m % 10 = 0 THEN Normalize(m \div 10, e + 1)
    ELSE <<m, e>>

HasCharAt(s, i, set) == i < Len(s) /\ At(s, i) \in set

\* The literal s with integer digits s[i0..i1), fraction digits s[f0..f1) and
\* exponent digits s[x0..x1); neg and expNeg are the two signs.
NumberOf(s, neg, i0, i1, f0, f1, hasExp, expNeg, x0, x1) ==
    IF (i1 > i0 \/ f1 > f0) /\ (hasExp => x1 > x0) /\ x1 = Len(s)
    THEN With(DigitsValue(s, f0, f1, DigitsValue(s, i0, i1, 0)), LAMBDA mant :
         With(DigitsValue(s, x0, x1, 0), LAMBDA ex :
            [nan |-> FALSE,
             value |-> Normalize(IF neg THEN 0 - mant ELSE mant,
                                 (IF expNeg THEN 0 - ex ELSE ex) - (f1 - f0))]))
    ELSE [nan |-> TRUE, value |-> <<0, 0>>]

Number(s) ==
    With(IF HasCharAt(s, 0, {"-", "+"}) THEN 1 ELSE 0, LAMBDA i0 :
    With(DigitRun(s, i0), LAMBDA i1 :
    With(IF HasCharAt(s, i1, {"."}) THEN i1 + 1 ELSE i1, LAMBDA f0 :
    With(DigitRun(s, f0), LAMBDA f1 :
    With(HasCharAt(s, f1, {"e", "E"}), LAMBDA hasExp :
    With(IF ~hasExp THEN f1
         ELSE IF HasCharAt(s, f1 + 1, {"+", "-"}) THEN f1 + 2 ELSE f1 + 1, LAMBDA x0 :
    With(IF hasExp THEN DigitRun(s, x0) ELSE f1, LAMBDA x1 :
        NumberOf(s, HasCharAt(s, 0, {"-"}), i0, i1, f0, f1, hasExp,
                 hasExp /\ HasCharAt(s, f1 + 1, {"-"}), x0, x1))))))))

(***************************************************************************)
(* Lexer                                                                   *)
(***************************************************************************)
RECURSIVE skipWhitespace(_, _)
skipWhitespace(buf, pos) ==
    IF pos < Len(buf) /\ IsWhitespace(At(buf, pos))
    THEN skipWhitespace(buf, pos + 1)
    ELSE pos

\* startsWith comparing only as many characters as the buffer still holds.
startsWith_Available(buf, pos, s) ==
    Slice(buf, pos, pos + Len(s)) = SubSeq(s, 1, Min(Len(s), Len(buf) - pos))

startsWith(buf, pos, s) == Slice(buf, pos, pos + Len(s)) = s

\* The character an escape \esc other than \u stands for.
Unescape(esc) ==
    CASE esc = "n" -> 10
      [] esc = "b" -> 8
      [] esc = "f" -> 12
      [] esc = "r" -> 13
      [] esc = "t" -> 9
      [] OTHER -> CharCode(esc)

\* String.fromCharCode(parseInt(hex, 16)) for four hex digits.
FromCharCode(hex) ==
    ((HexVal(hex[1]) * 16 + HexVal(hex[2])) * 16 + HexVal(hex[3])) * 16 + HexVal(hex[4])

IsHex4(hex) == Len(hex) = 4 /\ \A i \in 1..4 : IsHexDigit(hex[i])

\* How far the cursor moves over a \uXXXX escape: position += 5, then += 2.
UnicodeEscapeAdvance == 5 + 2

RECURSIVE readStringLoop(_, _, _, _)
readStringLoop(buf, startPosition, p, result) ==
    LET restore == [tok |-> Null, pos |-> startPosition] IN
    IF p >= Len(buf) THEN restore
    ELSE LET ch == At(buf, p) IN
        IF ch = "\\" THEN
            IF p + 1 >= Len(buf) THEN restore
            ELSE LET esc == At(buf, p + 1) IN
                IF esc = "u" THEN
                    IF p + 5 >= Len(buf) THEN restore
                    ELSE LET hex == Slice(buf, p + 2, p + 6) IN
                        IF ~IsHex4(hex) THEN restore
                        ELSE readStringLoop(buf, startPosition,
                                            p + UnicodeEscapeAdvance,
                                            Append(result, FromCharCode(hex)))
                ELSE readStringLoop(buf, startPosition, p + 2,
                                    Append(result, Unescape(esc)))
        ELSE IF ch = "\"" THEN [tok |-> StringToken(result), pos |-> p + 1]
        ELSE readStringLoop(buf, startPosition, p + 1, Append(result, CharCode(ch)))

\* readString with the cursor left at the end of the buffer, and not put
\* back, when the string does not end in the buffered text.
readString_NoRestore(buf, pos) ==
    With(readStringLoop(buf, pos, pos + 1, <<>>), LAMBDA r :
        IF r.tok = Null THEN [tok |-> Null, pos |-> Len(buf)] ELSE r)

\* readString putting the cursor back to the start of the buffer, and not of
\* the string, when the string does not end in the buffered text.
readString_ToBufferStart(buf, pos) == readStringLoop(buf, 0, pos + 1, <<>>)

readString(buf, pos) == readStringLoop(buf, pos, pos + 1, <<>>)

RECURSIVE readNumberLoop(_, _, _, _, _)
\* The scan loop of readNumber: where it stops and whether a digit was seen.
readNumberLoop(buf, p, hasDigit, hasDecimal, hasExponent) ==
    IF p >= Len(buf) THEN [pos |-> p, hasDigit |-> hasDigit]
    ELSE LET ch == At(buf, p) IN
        IF IsDigit(ch) THEN readNumberLoop(buf, p + 1, TRUE, hasDecimal, hasExponent)
        ELSE IF ch = "." /\ ~hasDecimal /\ ~hasExponent
            THEN readNumberLoop(buf, p + 1, hasDigit, TRUE, hasExponent)
        ELSE IF ch \in {"e", "E"} /\ ~hasExponent /\ hasDigit
            THEN LET q == p + 1
                     r == IF q < Len(buf) /\ At(buf, q) \in {"+", "-"} THEN q + 1 ELSE q
                 IN  readNumberLoop(buf, r, FALSE, hasDecimal, TRUE)
        ELSE [pos |-> p, hasDigit |-> hasDigit]

\* The token readNumber makes of buf[start..end), unless Number gives NaN.
numberToken(buf, start, end) ==
    With(Number(Slice(buf, start, end)), LAMBDA num :
        IF num.nan THEN [tok |-> Null, pos |-> start]
        ELSE [tok |-> NumberToken(num.value), pos |-> end])

\* readNumber with the cursor left where the scan stopped, and not put back,
\* when the number runs to the end of the buffered text.
readNumber_NoRestore(buf, start) ==
    With(readNumberLoop(buf, start, FALSE, FALSE, FALSE), LAMBDA scan :
        IF scan.pos = Len(buf) THEN [tok |-> Null, pos |-> scan.pos]
        ELSE IF ~scan.hasDigit THEN [tok |-> Null, pos |-> start]
        ELSE numberToken(buf, start, scan.pos))

readNumber(buf, start) ==
    With(readNumberLoop(buf, start, FALSE, FALSE, FALSE), LAMBDA scan :
        IF scan.pos = Len(buf) THEN [tok |-> Null, pos |-> start]
        ELSE IF ~scan.hasDigit THEN [tok |-> Null, pos |-> start]
        ELSE numberToken(buf, start, scan.pos))

LitTrue == <<"t", "r", "u", "e">>
LitFalse == <<"f", "a", "l", "s", "e">>
LitNull == <<"n", "u", "l", "l">>

\* nextToken once skipWhitespace has moved the cursor to pos.
tokenAt(buf, pos) ==
    IF pos >= Len(buf) THEN [tok |-> Null, pos |-> pos]
    ELSE LET ch == At(buf, pos) IN
        CASE ch = "{" -> [tok |-> Tok("begin-object"), pos |-> pos + 1]
          [] ch = "}" -> [tok |-> Tok("end-object"), pos |-> pos + 1]
          [] ch = "[" -> [tok |-> Tok("begin-array"), pos |-> pos + 1]
          [] ch = "]" -> [tok |-> Tok("end-array"), pos |-> pos + 1]
          [] ch = ":" -> [tok |-> Tok("name-separator"), pos |-> pos + 1]
          [] ch = "," -> [tok |-> Tok("value-separator"), pos |-> pos + 1]
          [] ch = "\"" -> readString(buf, pos)
          [] ch = "-" \/ IsDigit(ch) -> readNumber(buf, pos)
          [] OTHER ->
                IF startsWith(buf, pos, LitTrue)
                    THEN [tok |-> ValueToken("true"), pos |-> pos + 4]
                ELSE IF startsWith(buf, pos, LitFalse)
                    THEN [tok |-> ValueToken("false"), pos |-> pos + 5]
                ELSE IF startsWith(buf, pos, LitNull)
                    THEN [tok |-> ValueToken("null"), pos |-> pos + 4]
                ELSE [tok |-> Null, pos |-> pos]

\* Lexer.nextToken on buffer buf with the cursor at pos0: the token (or Null)
\* and the cursor afterwards.
nextToken(buf, pos0) == tokenAt(buf, skipWhitespace(buf, pos0))

(***************************************************************************)
(* JSON.parse, the built-in decoder handleParsingArrayEntry hands a slice  *)
(* to.  It accepts exactly the JSON grammar (ECMA-404) and fails on        *)
(* anything else.  The decoded value is given as the sequence of its       *)
(* tokens, separators left out, which determines the value tree.           *)
(***************************************************************************)
JsonFail == [ok |-> FALSE, pos |-> 0, value |-> <<>>]
JsonOk(p, v) == [ok |-> TRUE, pos |-> p, value |-> v]

RECURSIVE jsonStringLoop(_, _, _)
jsonStringLoop(s, p, result) ==
    IF p >= Len(s) THEN JsonFail
    ELSE LET ch == At(s, p) IN
        IF ch = "\"" THEN JsonOk(p + 1, <<StringToken(result)>>)
        ELSE IF ch = "\\" THEN
            IF p + 1 >= Len(s) THEN JsonFail
            ELSE LET esc == At(s, p + 1) IN
                IF esc \in {"\"", "\\", "/", "b", "f", "n", "r", "t"}
                    THEN jsonStringLoop(s, p + 2, Append(result, Unescape(esc)))
                ELSE IF esc = "u" /\ p + 5 < Len(s) /\ IsHex4(Slice(s, p + 2, p + 6))
                    THEN jsonStringLoop(s, p + 6,
                                        Append(result, FromCharCode(Slice(s, p + 2, p + 6))))
                ELSE JsonFail
        ELSE IF CharCode(ch) < 32 THEN JsonFail
        ELSE jsonStringLoop(s, p + 1, Append(result, CharCode(ch)))

\* The number at s[p..) whose digits start at a: -? (0 | [1-9][0-9]*)
\* (. [0-9]+)? ([eE] [+-]? [0-9]+)?
jsonNumber(s, p) ==
    With(IF At(s, p) = "-" THEN p + 1 ELSE p, LAMBDA a :
    With(IF HasCharAt(s, a, {"0"}) THEN a + 1 ELSE DigitRun(s, a), LAMBDA i1 :
    With(IF HasCharAt(s, i1, {"."}) THEN DigitRun(s, i1 + 1) ELSE i1, LAMBDA f1 :
    With(IF HasCharAt(s, f1 + 1, {"+", "-"}) THEN f1 + 2 ELSE f1 + 1, LAMBDA x0 :
    With(IF HasCharAt(s, f1, {"e", "E"}) THEN DigitRun(s, x0) ELSE f1, LAMBDA x1 :
        IF \/ i1 = a
           \/ (HasCharAt(s, i1, {"."}) /\ f1 = i1 + 1)
           \/ (HasCharAt(s, f1, {"e", "E"}) /\ x1 = x0)
        THEN JsonFail
        ELSE JsonOk(x1, <<NumberToken(Number(Slice(s, p, x1)).value)>>))))))

RECURSIVE jsonValueAt(_, _), jsonMembers(_, _, _), jsonElements(_, _, _)
RECURSIVE jsonAfter(_, _, _, _)
\* The value that starts at p, after whitespace.
jsonValue(s, p0) == jsonValueAt(s, skipWhitespace(s, p0))

jsonValueAt(s, p) ==
    IF p >= Len(s) THEN JsonFail
    ELSE LET ch == At(s, p) IN
        CASE ch = "{" ->
                LET q == skipWhitespace(s, p + 1) IN
                IF q < Len(s) /\ At(s, q) = "}"
                THEN JsonOk(q + 1, <<Tok("begin-object"), Tok("end-object")>>)
                ELSE jsonMembers(s, q, <<Tok("begin-object")>>)
          [] ch = "[" ->
                LET q == skipWhitespace(s, p + 1) IN
                IF q < Len(s) /\ At(s, q) = "]"
                THEN JsonOk(q + 1, <<Tok("begin-array"), Tok("end-array")>>)
                ELSE jsonElements(s, q, <<Tok("begin-array")>>)
          [] ch = "\"" -> jsonStringLoop(s, p + 1, <<>>)
          [] ch = "-" \/ IsDigit(ch) -> jsonNumber(s, p)
          [] OTHER ->
                IF startsWith(s, p, LitTrue) THEN JsonOk(p + 4, <<ValueToken("true")>>)
                ELSE IF startsWith(s, p, LitFalse) THEN JsonOk(p + 5, <<ValueToken("false")>>)
                ELSE IF startsWith(s, p, LitNull) THEN JsonOk(p + 4, <<ValueToken("null")>>)
                ELSE JsonFail

\* What follows a member or an element whose tokens, with those before it,
\* are got and which ends at e (after whitespace): close ends the container.
jsonAfter(s, e, got, close) ==
    IF e >= Len(s) THEN JsonFail
    ELSE IF At(s, e) = close
        THEN JsonOk(e + 1, Append(got, Tok(IF close = "}" THEN "end-object" ELSE "end-array")))
    ELSE IF At(s, e) = ","
        THEN IF close = "}" THEN jsonMembers(s, skipWhitespace(s, e + 1), got)
             ELSE jsonElements(s, skipWhitespace(s, e + 1), got)
    ELSE JsonFail

\* The members of an object from the key at p on, acc the tokens so far.
jsonMembers(s, p, acc) ==
    IF p >= Len(s) \/ At(s, p) # "\"" THEN JsonFail
    ELSE With(jsonStringLoop(s, p + 1, <<>>), LAMBDA k :
        IF ~k.ok THEN JsonFail
        ELSE With(skipWhitespace(s, k.pos), LAMBDA c :
            IF c >= Len(s) \/ At(s, c) # ":" THEN JsonFail
            ELSE With(jsonValue(s, c + 1), LAMBDA v :
                IF ~v.ok THEN JsonFail
                ELSE jsonAfter(s, skipWhitespace(s, v.pos), acc \o k.value \o v.value,
                               "}"))))

\* The elements of an array from the value at p on, acc the tokens so far.
jsonElements(s, p, acc) ==
    With(jsonValue(s, p), LAMBDA v :
        IF ~v.ok THEN JsonFail
        ELSE jsonAfter(s, skipWhitespace(s, v.pos), acc \o v.value, "]"))

\* JSON.parse(text): ok is FALSE where it throws a SyntaxError.
JSONParse(text) ==
    With(jsonValue(text, 0), LAMBDA v :
        IF v.ok /\ skipWhitespace(text, v.pos) = Len(text)
        THEN [ok |-> TRUE, value |-> v.value]
        ELSE [ok |-> FALSE, value |-> <<>>])

(***************************************************************************)
(* StreamingJSONParser.  A parse state always carries bracketCount and     *)
(* startPosition; they are 0 in the states that have no such fields.       *)
(***************************************************************************)
St(t) == [type |-> t, bracketCount |-> 0, startPosition |-> 0]

ResultsKey == CodesOf(<<"r", "e", "s", "u", "l", "t", "s">>)

nextSignificantToken(buf, pos, peek) ==
    With(nextToken(buf, pos), LAMBDA r :
        IF peek /\ r.tok # Null THEN [tok |-> r.tok, pos |-> pos] ELSE r)

\* The outcome of the helpers that consume tokens: ok is the return value,
\* pos the cursor they leave, bad whether a failure came from a token of the
\* wrong type (and not from a null token).
Took(p) == [ok |-> TRUE, pos |-> p, bad |-> FALSE]
Gave(p, bad) == [ok |-> FALSE, pos |-> p, bad |-> bad]

expectToken(buf, pos, type) ==
    With(nextSignificantToken(buf, pos, FALSE), LAMBDA t :
        IF t.tok = Null THEN Gave(t.pos, FALSE)
        ELSE IF t.tok.type # type THEN Gave(t.pos, TRUE)
        ELSE Took(t.pos))

RECURSIVE parseValue(_, _), parseObjectLoop(_, _), parseArrayLoop(_, _)
RECURSIVE afterValue(_, _, _)

parseObject(buf, pos) ==
    With(nextSignificantToken(buf, pos, TRUE), LAMBDA nextTok :
        IF nextTok.tok = Null THEN Gave(nextTok.pos, FALSE)
        ELSE IF nextTok.tok.type = "end-object"
            THEN Took(nextSignificantToken(buf, nextTok.pos, FALSE).pos)
        ELSE parseObjectLoop(buf, nextTok.pos))

parseArray(buf, pos) ==
    With(nextSignificantToken(buf, pos, TRUE), LAMBDA nextTok :
        IF nextTok.tok = Null THEN Gave(nextTok.pos, FALSE)
        ELSE IF nextTok.tok.type = "end-array"
            THEN Took(nextSignificantToken(buf, nextTok.pos, FALSE).pos)
        ELSE parseArrayLoop(buf, nextTok.pos))

\* parseValue(discard = true), the only way the class calls it.
parseValue(buf, pos) ==
    With(nextSignificantToken(buf, pos, FALSE), LAMBDA t :
        IF t.tok = Null THEN Gave(t.pos, FALSE)
        ELSE IF t.tok.type \in {"string", "number", "value"} THEN Took(t.pos)
        ELSE IF t.tok.type = "begin-object" THEN parseObject(buf, t.pos)
        ELSE IF t.tok.type = "begin-array" THEN parseArray(buf, t.pos)
        ELSE Gave(t.pos, TRUE))

\* The end of a turn of the while (true) of parseObject and parseArray: the
\* separator after a value, close being the token that ends the container.
afterValue(buf, pos, close) ==
    With(nextSignificantToken(buf, pos, FALSE), LAMBDA separator :
        IF separator.tok = Null THEN Gave(separator.pos, FALSE)
        ELSE IF separator.tok.type = close THEN Took(separator.pos)
        ELSE IF separator.tok.type # "value-separator" THEN Gave(separator.pos, TRUE)
        ELSE IF close = "end-object" THEN parseObjectLoop(buf, separator.pos)
        ELSE parseArrayLoop(buf, separator.pos))

\* One turn of the while (true) of parseObject.
parseObjectLoop(buf, pos) ==
    With(nextSignificantToken(buf, pos, FALSE), LAMBDA keyToken :
        IF keyToken.tok = Null THEN Gave(keyToken.pos, FALSE)
        ELSE IF keyToken.tok.type # "string" THEN Gave(keyToken.pos, TRUE)
        ELSE With(expectToken(buf, keyToken.pos, "name-separator"), LAMBDA colon :
            IF ~colon.ok THEN colon
            ELSE With(parseValue(buf, colon.pos), LAMBDA value :
                IF ~value.ok THEN value
                ELSE afterValue(buf, value.pos, "end-object"))))

\* One turn of the while (true) of parseArray.
parseArrayLoop(buf, pos) ==
    With(parseValue(buf, pos), LAMBDA value :
        IF ~value.ok THEN value
        ELSE afterValue(buf, value.pos, "end-array"))

skipValue(buf, pos) == parseValue(buf, pos)

\* What a step of the state machine returns and leaves behind: the return
\* value, the cursor, the parse state, the values it passed to onNewEntry,
\* whether it met a token of the wrong type, whether JSON.parse threw.
Step(progress, p, st, emit, bad, threw) ==
    [progress |-> progress, pos |-> p, state |-> st, emit |-> emit,
     bad |-> bad, threw |-> threw]

\* The cursor after the peeked token at pos is consumed.
Consumed(buf, pos) == nextSignificantToken(buf, pos, FALSE).pos

handleExpectObjectStart(buf, pos, st, token) ==
    IF token.type # "begin-object" THEN Step(FALSE, pos, st, <<>>, TRUE, FALSE)
    ELSE Step(TRUE, Consumed(buf, pos), St("SCANNING_FOR_RESULTS"), <<>>, FALSE, FALSE)

\* handleScanningForResults from "const sep" on.
scanSeparator(buf, pos, st) ==
    With(nextSignificantToken(buf, pos, FALSE), LAMBDA sep :
        IF sep.tok = Null THEN Step(FALSE, sep.pos, st, <<>>, FALSE, FALSE)
        ELSE IF sep.tok.type = "end-object"
            THEN Step(TRUE, sep.pos, St("DONE"), <<>>, FALSE, FALSE)
        ELSE IF sep.tok.type # "value-separator"
            THEN Step(FALSE, sep.pos, st, <<>>, TRUE, FALSE)
        ELSE Step(TRUE, sep.pos, st, <<>>, FALSE, FALSE))

handleScanningForResults(buf, pos, st, token) ==
    IF token.type = "string" /\ token.str = ResultsKey
    THEN Step(TRUE, Consumed(buf, pos), St("EXPECT_COLON_AFTER_RESULTS"),
              <<>>, FALSE, FALSE)
    ELSE With(expectToken(buf, Consumed(buf, pos), "name-separator"), LAMBDA colon :
        IF ~colon.ok THEN Step(FALSE, colon.pos, st, <<>>, colon.bad, FALSE)
        ELSE With(skipValue(buf, colon.pos), LAMBDA value :
            IF ~value.ok THEN Step(FALSE, value.pos, st, <<>>, value.bad, FALSE)
            ELSE scanSeparator(buf, value.pos, st)))

\* handleExpectColon consuming the peeked token before it looks at its type,
\* as handleScanningForResults does.
handleExpectColon_ConsumeFirst(buf, pos, st, token) ==
    IF token.type # "name-separator"
    THEN Step(FALSE, Consumed(buf, pos), st, <<>>, TRUE, FALSE)
    ELSE Step(TRUE, Consumed(buf, pos), St("EXPECT_ARRAY_START"), <<>>, FALSE, FALSE)

handleExpectColon(buf, pos, st, token) ==
    IF token.type # "name-separator" THEN Step(FALSE, pos, st, <<>>, TRUE, FALSE)
    ELSE Step(TRUE, Consumed(buf, pos), St("EXPECT_ARRAY_START"), <<>>, FALSE, FALSE)

handleExpectArrayStart(buf, pos, st, token) ==
    IF token.type # "begin-array" THEN Step(FALSE, pos, st, <<>>, TRUE, FALSE)
    ELSE Step(TRUE, Consumed(buf, pos), St("PARSING_RESULTS_ARRAY"), <<>>, FALSE, FALSE)

\* The offset recorded as startPosition when an element's "{" is peeked.
EntryStart(pos) == pos

\* handleParsingResultsArray consuming a token that starts no object, as it
\* consumes a value-separator, instead of returning false.
handleParsingResultsArray_SkipsOthers(buf, pos, st, token) ==
    IF token.type = "end-array"
        THEN Step(TRUE, Consumed(buf, pos), St("DONE"), <<>>, FALSE, FALSE)
    ELSE IF token.type = "begin-object"
        THEN Step(TRUE, Consumed(buf, pos),
                  [type |-> "PARSING_ARRAY_ENTRY", bracketCount |-> 1,
                   startPosition |-> EntryStart(pos)],
                  <<>>, FALSE, FALSE)
    ELSE Step(TRUE, Consumed(buf, pos), st, <<>>, FALSE, FALSE)

handleParsingResultsArray(buf, pos, st, token) ==
    IF token.type = "end-array"
        THEN Step(TRUE, Consumed(buf, pos), St("DONE"), <<>>, FALSE, FALSE)
    ELSE IF token.type = "value-separator"
        THEN Step(TRUE, Consumed(buf, pos), st, <<>>, FALSE, FALSE)
    ELSE IF token.type = "begin-object"
        THEN Step(TRUE, Consumed(buf, pos),
                  [type |-> "PARSING_ARRAY_ENTRY", bracketCount |-> 1,
                   startPosition |-> EntryStart(pos)],
                  <<>>, FALSE, FALSE)
    ELSE Step(FALSE, pos, st, <<>>, TRUE, FALSE)

\* completeEntry with the cursor put back to the element's start once the
\* element has been passed on.
completeEntry_Rewind(buf, pos, st1) ==
    With(JSONParse(Slice(buf, st1.startPosition, pos)), LAMBDA parsedObject :
        IF parsedObject.ok
        THEN Step(TRUE, st1.startPosition, St("PARSING_RESULTS_ARRAY"),
                  <<parsedObject.value>>, FALSE, FALSE)
        ELSE Step(FALSE, pos, st1, <<>>, FALSE, TRUE))

\* handleParsingArrayEntry once bracketCount has come down to 0 in st1, the
\* cursor being at pos: the slice is decoded and passed to onNewEntry.
completeEntry(buf, pos, st1) ==
    With(JSONParse(Slice(buf, st1.startPosition, pos)), LAMBDA parsedObject :
        IF parsedObject.ok
        THEN Step(TRUE, pos, St("PARSING_RESULTS_ARRAY"), <<parsedObject.value>>,
                  FALSE, FALSE)
        ELSE Step(FALSE, pos, st1, <<>>, FALSE, TRUE))

handleParsingArrayEntry(buf, pos, st) ==
    With(nextSignificantToken(buf, pos, FALSE), LAMBDA t :
        IF t.tok = Null THEN Step(FALSE, t.pos, st, <<>>, FALSE, FALSE)
        ELSE IF t.tok.type = "begin-object"
            THEN Step(TRUE, t.pos, [st EXCEPT !.bracketCount = @ + 1], <<>>, FALSE, FALSE)
        ELSE IF t.tok.type = "end-object"
            THEN IF st.bracketCount - 1 = 0
                 THEN completeEntry(buf, t.pos, [st EXCEPT !.bracketCount = @ - 1])
                 ELSE Step(TRUE, t.pos, [st EXCEPT !.bracketCount = @ - 1],
                           <<>>, FALSE, FALSE)
        ELSE Step(TRUE, t.pos, st, <<>>, FALSE, FALSE))

\* processNextStep with the case 'DONE' of the switch going on to scan for
\* further keys instead of returning false.
processNextStep_DoneScans(buf, pos, st) ==
    With(nextSignificantToken(buf, pos, TRUE), LAMBDA peeked :
        IF peeked.tok = Null THEN Step(FALSE, peeked.pos, st, <<>>, FALSE, FALSE)
        ELSE CASE st.type = "EXPECT_OBJECT_START" ->
                    handleExpectObjectStart(buf, pos, st, peeked.tok)
               [] st.type \in {"SCANNING_FOR_RESULTS", "DONE"} ->
                    handleScanningForResults(buf, pos, St("SCANNING_FOR_RESULTS"),
                                             peeked.tok)
               [] st.type = "EXPECT_COLON_AFTER_RESULTS" ->
                    handleExpectColon(buf, pos, st, peeked.tok)
               [] st.type = "EXPECT_ARRAY_START" ->
                    handleExpectArrayStart(buf, pos, st, peeked.tok)
               [] st.type = "PARSING_RESULTS_ARRAY" ->
                    handleParsingResultsArray(buf, pos, st, peeked.tok)
               [] st.type = "PARSING_ARRAY_ENTRY" ->
                    handleParsingArrayEntry(buf, pos, st))

processNextStep(buf, pos, st) ==
    With(nextSignificantToken(buf, pos, TRUE), LAMBDA peeked :
        IF peeked.tok = Null THEN Step(FALSE, peeked.pos, st, <<>>, FALSE, FALSE)
        ELSE CASE st.type = "EXPECT_OBJECT_START" ->
                    handleExpectObjectStart(buf, pos, st, peeked.tok)
               [] st.type = "SCANNING_FOR_RESULTS" ->
                    handleScanningForResults(buf, pos, st, peeked.tok)
               [] st.type = "EXPECT_COLON_AFTER_RESULTS" ->
                    handleExpectColon(buf, pos, st, peeked.tok)
               [] st.type = "EXPECT_ARRAY_START" ->
                    handleExpectArrayStart(buf, pos, st, peeked.tok)
               [] st.type = "PARSING_RESULTS_ARRAY" ->
                    handleParsingResultsArray(buf, pos, st, peeked.tok)
               [] st.type = "PARSING_ARRAY_ENTRY" ->
                    handleParsingArrayEntry(buf, pos, st)
               [] st.type = "DONE" -> Step(FALSE, pos, st, <<>>, FALSE, FALSE))

\* The test of the while loop of parseChunk after a step from cursor
\* oldPosition: go on only if the step reported progress and moved the cursor.
MadeProgress(step, oldPosition) == step.progress /\ step.pos # oldPosition

RECURSIVE Drain(_, _, _, _)
\* The whole loop of parseChunk on buffer buf: the cursor, the parse state and
\* the calls of onNewEntry it ends with.
Drain(buf, pos, st, out) ==
    With(processNextStep(buf, pos, st), LAMBDA step :
        IF MadeProgress(step, pos)
        THEN Drain(buf, step.pos, step.state, out \o step.emit)
        ELSE [pos |-> step.pos, state |-> step.state, entries |-> out \o step.emit])

(***************************************************************************)
(* The documents the source delivers.  A document with a results array is  *)
(* "{" sib "results":[ e1,e2,... ]}: sib is the text of the sibling keys   *)
(* before "results" (with their trailing comma), elems the element texts.  *)
(***************************************************************************)
\* "results"
ResultsName ==
    <<"\"", "r", "e", "s", "u", "l", "t", "s", "\"">>

\* "a":1,
SibScalar ==
    <<"\"", "a", "\"", ":", "1", ",">>

\* "a":{"results":[{}]},
SibNested ==
    <<"\"", "a", "\"", ":", "{", "\"", "r", "e", "s", "u", "l", "t", "s",
    "\"", ":", "[", "{", "}", "]", "}", ",">>

\* "b" : [[],"x"] ,
SibArray ==
    <<"\"", "b", "\"", " ", ":", " ", "[", "[", "]", ",", "\"", "x", "\"",
    "]", " ", ",">>

\* "a":-1,
SibNegative ==
    <<"\"", "a", "\"", ":", "-", "1", ",">>

\* {}
ElEmpty ==
    <<"{", "}">>

\* {"id":1}
ElFlat ==
    <<"{", "\"", "i", "d", "\"", ":", "1", "}">>

\*  {"s":"}","o":{}}
ElNested ==
    <<" ", "{", "\"", "s", "\"", ":", "\"", "}", "\"", ",", "\"", "o", "\"",
    ":", "{", "}", "}">>

\* {"n":-1}
ElNegative ==
    <<"{", "\"", "n", "\"", ":", "-", "1", "}">>

\* {"u":"\u0041"}
ElUnicode ==
    <<"{", "\"", "u", "\"", ":", "\"", "\\", "u", "0", "0", "4", "1", "\"",
    "}">>

\* {"a":"\u0041","}":1}
ElUnicodeBrace ==
    <<"{", "\"", "a", "\"", ":", "\"", "\\", "u", "0", "0", "4", "1", "\"",
    ",", "\"", "}", "\"", ":", "1", "}">>

\* {"results":[] }
DocTrailingSpace ==
    <<"{">> \o ResultsName \o <<":", "[", "]", " ", "}">>

\* {"results":[{}],"results":[{}]}
DocTrailingKey ==
    <<"{">> \o ResultsName \o <<":", "[", "{", "}", "]", ",">>
        \o ResultsName \o <<":", "[", "{", "}", "]", "}">>

\* {1:2,"results":[{}]}
DocNumberKey ==
    <<"{", "1", ":", "2", ",">> \o ResultsName \o <<":", "[", "{", "}", "]", "}">>

\* [{}]
DocNotObject ==
    <<"[", "{", "}", "]">>

\* {"results" [{}]}
DocResultsNoColon ==
    <<"{">> \o ResultsName \o <<" ", "[", "{", "}", "]", "}">>

\* {"results":{"a":[{}]}}
DocResultsNotArray ==
    <<"{">> \o ResultsName
        \o <<":", "{", "\"", "a", "\"", ":", "[", "{", "}", "]", "}", "}">>

\* {"results":[{},1,{}]}
DocScalarElement ==
    <<"{">> \o ResultsName \o <<":", "[", "{", "}", ",", "1", ",", "{", "}", "]", "}">>

\* {"results":[[{}],{}]}
DocArrayElement ==
    <<"{">> \o ResultsName \o <<":", "[", "[", "{", "}", "]", ",", "{", "}", "]", "}">>

\* {}
DocEmptyObject ==
    <<"{", "}">>

\* {"a":1}
DocOneKey ==
    <<"{", "\"", "a", "\"", ":", "1", "}">>

\* {"a":[1],"b":{}}
DocTwoKeys ==
    <<"{", "\"", "a", "\"", ":", "[", "1", "]", ",", "\"", "b", "\"", ":",
    "{", "}", "}">>

\* {"a" 1 "results":[{}]}
DocMissingColon ==
    <<"{", "\"", "a", "\"", " ", "1", " ", "\"", "r", "e", "s", "u", "l", "t",
    "s", "\"", ":", "[", "{", "}", "]", "}">>

\* {"results":[{},{"a" 1},{}]}
DocBadElement ==
    <<"{", "\"", "r", "e", "s", "u", "l", "t", "s", "\"", ":", "[", "{", "}",
    ",", "{", "\"", "a", "\"", " ", "1", "}", ",", "{", "}", "]", "}">>

\* How many elements the results array of a generated document holds at most.
MaxEntries == 2

\* The count of delivered fragments is kept exactly below ChunkCap.
ChunkCap == 2

\* Every text of at most MaxLexLen characters of LexAlphabet is tokenized.
MaxLexLen == 3

Siblings == {<<>>, SibScalar, SibNested, SibArray}
Elements == {ElEmpty, ElFlat, ElNested}

RECURSIVE Join(_)
\* The element texts es, comma separated.
Join(es) ==
    IF es = <<>> THEN <<>>
    ELSE IF Len(es) = 1 THEN es[1]
    ELSE es[1] \o <<",">> \o Join(Tail(es))

MakeDoc(sib, es) ==
    <<"{">> \o sib \o ResultsName \o <<":", "[">> \o Join(es) \o <<"]", "}">>

WithResults(sib, es) ==
    [text |-> MakeDoc(sib, es), kind |-> "results", sib |-> sib, elems |-> es]
Other(text, kind) == [text |-> text, kind |-> kind, sib |-> <<>>, elems |-> <<>>]

EntrySeqs == UNION {[1..n -> Elements] : n \in 0..MaxEntries}

\* Valid documents with a top-level results array of objects.
ResultsDocs ==
    {WithResults(sib, es) : sib \in Siblings, es \in EntrySeqs}
    \cup {WithResults(<<>>, <<ElNegative>>), WithResults(<<>>, <<ElEmpty, ElUnicode>>),
          WithResults(SibNegative, <<ElEmpty>>), WithResults(<<>>, <<ElUnicodeBrace>>),
          [text |-> DocTrailingSpace, kind |-> "results", sib |-> <<>>, elems |-> <<>>],
          [text |-> DocTrailingKey, kind |-> "results", sib |-> <<>>,
           elems |-> <<ElEmpty>>]}

\* Valid documents without a results key.
NoResultsDocs ==
    {Other(DocEmptyObject, "noresults"), Other(DocOneKey, "noresults"),
     Other(DocTwoKeys, "noresults")}

\* Documents that are not JSON.
InvalidDocs ==
    {Other(DocMissingColon, "invalid"), Other(DocBadElement, "invalid"),
     Other(DocNumberKey, "invalid"), Other(DocNotObject, "invalid"),
     Other(DocResultsNoColon, "invalid"), Other(DocResultsNotArray, "invalid")}

\* Valid documents whose results array has an element that is not an object;
\* elems are the elements in front of it.
NonObjectDocs ==
    {[text |-> DocScalarElement, kind |-> "nonobject", sib |-> <<>>,
      elems |-> <<ElEmpty>>],
     [text |-> DocArrayElement, kind |-> "nonobject", sib |-> <<>>, elems |-> <<>>]}

Docs == ResultsDocs \cup NoResultsDocs \cup InvalidDocs \cup NonObjectDocs

(***************************************************************************)
(* The stream: parseStream hands every non-empty fragment to parseChunk,   *)
(* in order, and parseChunk runs its loop to the end before the next       *)
(* fragment is read.                                                       *)
(***************************************************************************)
\* No nextToken call has returned null yet.
NoNull == [pos |-> 0 - 1, len |-> 0 - 1]

Init ==
    /\ doc \in Docs
    /\ fed = 0
    /\ buffer = <<>>
    /\ position = 0
    /\ state = St("EXPECT_OBJECT_START")
    /\ entries = <<>>
    /\ pc = "idle"
    /\ chunks = 0
    /\ mismatch = FALSE
    /\ decodeFailed = FALSE
    /\ callPos = 0
    /\ lastToken = Null
    /\ lastNull = NoNull

\* Lexer.addChunk
addChunk(buf, chunk) == buf \o chunk

\* parseChunk(chunk) up to its loop: the next n characters are appended.
ParseChunk(n) ==
    /\ pc = "idle"
    /\ fed + n <= Len(doc.text)
    /\ buffer' = addChunk(buffer, SubSeq(doc.text, fed + 1, fed + n))
    /\ fed' = fed + n
    /\ pc' = "drain"
    /\ chunks' = Min(chunks + 1, ChunkCap)
    /\ UNCHANGED <<doc, position, state, entries, mismatch, decodeFailed,
                   callPos, lastToken, lastNull>>

\* One turn of the loop of parseChunk.
DrainStep ==
    /\ pc = "drain"
    /\ \E step \in {processNextStep(buffer, position, state)} :
        /\ position' = step.pos
        /\ state' = step.state
        /\ entries' = entries \o step.emit
        /\ mismatch' = (mismatch \/ step.bad)
        /\ decodeFailed' = (decodeFailed \/ step.threw)
        /\ pc' = IF MadeProgress(step, position) THEN "drain" ELSE "idle"
    /\ UNCHANGED <<doc, fed, buffer, chunks, callPos, lastToken, lastNull>>

Next ==
    \/ \E n \in 1..Len(doc.text) : ParseChunk(n)
    \/ DrainStep

Spec == Init /\ [][Next]_vars

(***************************************************************************)
(* The Lexer on its own: a text arrives in fragments through addChunk and  *)
(* nextToken is called at any time in between.                             *)
(***************************************************************************)
LexAlphabet == {" ", "\"", "\\", "1", "-", ","}

\* true,
LexPartialTrue ==
    <<"t", "r", "u", "e", ",">>

\*  "\u0041" 
LexUnicode ==
    <<" ", "\"", "\\", "u", "0", "0", "4", "1", "\"", " ">>

\* 1.5e+2 
LexExponent ==
    <<"1", ".", "5", "e", "+", "2", " ">>

\*  -1,
LexNegative ==
    <<" ", "-", "1", ",">>

\*  "hel\"lo"
LexPartialString ==
    <<" ", "\"", "h", "e", "l", "\\", "\"", "l", "o", "\"">>

\*  \t abc
LexBadLead ==
    <<" ", "\t", " ", "a", "b", "c">>

\*  null
LexNull ==
    <<" ", "n", "u", "l", "l">>

\* false,
LexFalse ==
    <<"f", "a", "l", "s", "e", ",">>

\* 123 
LexDigits ==
    <<"1", "2", "3", " ">>

LexTexts ==
    UNION {[1..n -> LexAlphabet] : n \in 1..MaxLexLen}
    \cup {LexPartialTrue, LexUnicode, LexExponent, LexNegative, LexPartialString,
          LexBadLead, LexNull, LexFalse, LexDigits}

LexInit ==
    /\ doc \in {Other(t, "text") : t \in LexTexts}
    /\ fed = 0
    /\ buffer = <<>>
    /\ position = 0
    /\ state = St("EXPECT_OBJECT_START")
    /\ entries = <<>>
    /\ pc = "idle"
    /\ chunks = 0
    /\ mismatch = FALSE
    /\ decodeFailed = FALSE
    /\ callPos = 0
    /\ lastToken = Null
    /\ lastNull = NoNull

LexAddChunk(n) ==
    /\ fed + n <= Len(doc.text)
    /\ buffer' = addChunk(buffer, SubSeq(doc.text, fed + 1, fed + n))
    /\ fed' = fed + n
    /\ chunks' = Min(chunks + 1, ChunkCap)
    /\ UNCHANGED <<doc, position, state, entries, pc, mismatch,
                   decodeFailed, callPos, lastToken, lastNull>>

LexNextToken ==
    /\ \E r \in {nextToken(buffer, position)} :
        /\ position' = r.pos
        /\ lastToken' = r.tok
        /\ callPos' = position
        /\ entries' = IF r.tok = Null THEN entries ELSE Append(entries, r.tok)
        /\ lastNull' = IF r.tok = Null THEN [pos |-> r.pos, len |-> Len(buffer)]
                                       ELSE lastNull
    /\ UNCHANGED <<doc, fed, buffer, state, pc, chunks, mismatch, decodeFailed>>

LexNext ==
    \/ \E n \in 1..Len(doc.text) : LexAddChunk(n)
    \/ LexNextToken

LexSpec == LexInit /\ [][LexNext]_vars

(***************************************************************************)
(* The one-shot Parser: parse(input) adds the whole text to a fresh Lexer  *)
(* and builds the value tree by recursive descent.  A value is given, as   *)
(* for JSON.parse, by the sequence of its tokens with separators left out. *)
(***************************************************************************)
ParserUndefined(p) == [ok |-> FALSE, pos |-> p, value |-> <<>>]
ParserValue(p, v) == [ok |-> TRUE, pos |-> p, value |-> v]

\* Parser.nextSignificantToken: a peek sets the cursor to getPosition() - 1.
ParserNextSignificantToken(buf, pos, peek) ==
    With(nextToken(buf, pos), LAMBDA r :
        IF peek /\ r.tok # Null THEN [tok |-> r.tok, pos |-> r.pos - 1] ELSE r)

RECURSIVE ParserParseValue(_, _), ParserObjectLoop(_, _, _), ParserArrayLoop(_, _, _)
RECURSIVE ParserAfterValue(_, _, _, _)

\* Parser.parseObject, called with the cursor just past the opening brace.
ParserParseObject(buf, pos) ==
    With(ParserNextSignificantToken(buf, pos, TRUE), LAMBDA nextTok :
        IF nextTok.tok.type = "end-object"
        THEN ParserValue(ParserNextSignificantToken(buf, nextTok.pos, FALSE).pos,
                         <<Tok("begin-object"), Tok("end-object")>>)
        ELSE ParserObjectLoop(buf, nextTok.pos, <<Tok("begin-object")>>))

\* Parser.parseArray, called with the cursor just past the opening bracket.
ParserParseArray(buf, pos) ==
    With(ParserNextSignificantToken(buf, pos, TRUE), LAMBDA nextTok :
        IF nextTok.tok.type = "end-array"
        THEN ParserValue(ParserNextSignificantToken(buf, nextTok.pos, FALSE).pos,
                         <<Tok("begin-array"), Tok("end-array")>>)
        ELSE ParserArrayLoop(buf, nextTok.pos, <<Tok("begin-array")>>))

ParserParseValue(buf, pos) ==
    With(ParserNextSignificantToken(buf, pos, FALSE), LAMBDA token :
        IF token.tok = Null THEN ParserUndefined(token.pos)
        ELSE IF token.tok.type \in {"string", "number", "value"}
            THEN ParserValue(token.pos, <<token.tok>>)
        ELSE IF token.tok.type = "begin-object" THEN ParserParseObject(buf, token.pos)
        ELSE IF token.tok.type = "begin-array" THEN ParserParseArray(buf, token.pos)
        ELSE ParserUndefined(token.pos))

\* The end of a turn of the while (true) of Parser.parseObject and
\* Parser.parseArray: the separator after a value, got being the tokens of
\* the container so far and close the type of the token that ends it.
ParserAfterValue(buf, pos, got, close) ==
    With(ParserNextSignificantToken(buf, pos, FALSE), LAMBDA separatorToken :
        IF separatorToken.tok = Null THEN ParserUndefined(separatorToken.pos)
        ELSE IF separatorToken.tok.type = close
            THEN ParserValue(separatorToken.pos, Append(got, Tok(close)))
        ELSE IF separatorToken.tok.type # "value-separator"
            THEN ParserUndefined(separatorToken.pos)
        ELSE IF close = "end-object"
            THEN ParserObjectLoop(buf, separatorToken.pos, got)
        ELSE ParserArrayLoop(buf, separatorToken.pos, got))

\* One turn of the while (true) of Parser.parseObject.
ParserObjectLoop(buf, pos, acc) ==
    With(ParserNextSignificantToken(buf, pos, FALSE), LAMBDA keyToken :
        IF keyToken.tok.type # "string" THEN ParserUndefined(keyToken.pos)
        ELSE With(ParserNextSignificantToken(buf, keyToken.pos, FALSE), LAMBDA colonToken :
            IF colonToken.tok.type # "name-separator"
            THEN ParserUndefined(colonToken.pos)
            ELSE With(ParserParseValue(buf, colonToken.pos), LAMBDA value :
                IF ~value.ok THEN value
                ELSE ParserAfterValue(buf, value.pos,
                                      Append(acc, keyToken.tok) \o value.value,
                                      "end-object"))))

\* One turn of the while (true) of Parser.parseArray.
ParserArrayLoop(buf, pos, acc) ==
    With(ParserParseValue(buf, pos), LAMBDA value :
        IF ~value.ok THEN value
        ELSE ParserAfterValue(buf, value.pos, acc \o value.value, "end-array"))

\* Parser.parse(input) on a new Parser: ok is FALSE where it throws
\* 'Invalid JSON'.
ParserParse(input) == ParserParseValue(addChunk(<<>>, input), 0)

ParserAlphabet == {"[", "]", "{", "}", "1", ","}

\* {"a":1}
JsonOneMember ==
    <<"{", "\"", "a", "\"", ":", "1", "}">>

\* [1,2]
JsonTwoNumbers ==
    <<"[", "1", ",", "2", "]">>

\* [12,3]
JsonLongNumber ==
    <<"[", "1", "2", ",", "3", "]">>

\* ["a"]
JsonOneString ==
    <<"[", "\"", "a", "\"", "]">>

\* [true, {}]
JsonLiteralFirst ==
    <<"[", "t", "r", "u", "e", ",", " ", "{", "}", "]">>

ParserTexts ==
    UNION {[1..n -> ParserAlphabet] : n \in 1..MaxLexLen}
    \cup {JsonOneMember, JsonTwoNumbers, JsonLongNumber, JsonOneString,
          JsonLiteralFirst}

ParserInit ==
    /\ doc \in {Other(t, "json") : t \in ParserTexts}
    /\ fed = 0
    /\ buffer = <<>>
    /\ position = 0
    /\ state = St("EXPECT_OBJECT_START")
    /\ entries = <<>>
    /\ pc = "idle"
    /\ chunks = 0
    /\ mismatch = FALSE
    /\ decodeFailed = FALSE
    /\ callPos = 0
    /\ lastToken = Null
    /\ lastNull = NoNull

\* new Parser().parse(doc.text); entries receives the value it returns.
Parse ==
    /\ pc = "idle"
    /\ buffer' = addChunk(buffer, doc.text)
    /\ fed' = Len(doc.text)
    /\ \E r \in {ParserParse(doc.text)} :
        /\ position' = r.pos
        /\ entries' = IF r.ok THEN <<r.value>> ELSE <<>>
        /\ pc' = IF r.ok THEN "returned" ELSE "threw"
    /\ UNCHANGED <<doc, state, chunks, mismatch, decodeFailed, callPos, lastToken,
                   lastNull>>

ParserNext == Parse

ParserSpec == ParserInit /\ [][ParserNext]_vars

(***************************************************************************)
(* Properties                                                              *)
(***************************************************************************)
InitialState == St("EXPECT_OBJECT_START")

\* The document has been delivered in full and parseChunk has returned.
Finished == pc = "idle" /\ fed = Len(doc.text)

\* What onNewEntry receives when the whole text arrives as one fragment.
OneFragment(text) == Drain(text, 0, InitialState, <<>>).entries

\* The values the element texts es decode to, in order.
Decoded(es) == [k \in 1..Len(es) |-> JSONParse(es[k]).value]

RECURSIVE TotalLen(_)
TotalLen(es) == IF es = <<>> THEN 0 ELSE Len(Head(es)) + TotalLen(Tail(es))

\* The offset just past the closing brace of the k-th element of document d.
ElemEnd(d, k) ==
    1 + Len(d.sib) + Len(ResultsName) + 2 + TotalLen(SubSeq(d.elems, 1, k)) + (k - 1)

\* The offset just past the top-level "results" key of document d.
ResultsKeyEnd(d) == 1 + Len(d.sib) + Len(ResultsName)

IsPrefix(a, b) == Len(a) <= Len(b) /\ a = SubSeq(b, 1, Len(a))

\* C1: for a valid document, however it is split into fragments, the values
\* passed to onNewEntry by the end are those passed when the whole text is
\* fed as a single fragment.
C1_SplitInvariance ==
    (Finished /\ doc.kind \in {"results", "noresults"})
        => entries = OneFragment(doc.text)

\* C2: for a valid document whose results array holds only objects,
\* onNewEntry is called exactly once per element, in array order, with the
\* value the element's text decodes to.  Stated for the documents whose first
\* key is "results", a case of the claim.
C2_OncePerElementInOrder ==
    (Finished /\ doc.kind = "results" /\ doc.sib = <<>>)
        => entries = Decoded(doc.elems)

\* C3: whenever parseChunk has returned, every element whose closing brace is
\* among the characters delivered so far has been passed to onNewEntry.
\* Stated for the documents whose first key is "results", a case of the claim.
C3_DeliveredWhenComplete ==
    (pc = "idle" /\ doc.kind = "results" /\ doc.sib = <<>>)
        => \A k \in 1..Len(doc.elems) : ElemEnd(doc, k) <= fed => Len(entries) >= k

\* C4: a valid document delivered as a single fragment, with sibling keys
\* before "results" whose values are scalars or nested objects/arrays, yields
\* the elements of its results array as if the siblings were absent.
C4_SiblingsSkipped ==
    (Finished /\ chunks = 1 /\ doc.kind = "results")
        => entries = OneFragment(MakeDoc(<<>>, doc.elems))

\* C5: under every fragmentation of a valid document, a key "results" nested
\* in the value of a sibling key never moves the machine to
\* EXPECT_COLON_AFTER_RESULTS (the state is entered only with the cursor just
\* past the top-level key) and none of the nested array's objects is passed
\* to onNewEntry (what is passed are elements of the top-level array).
C5_NestedResultsIgnored ==
    doc.kind = "results"
        => /\ state.type = "EXPECT_COLON_AFTER_RESULTS"
                => position = ResultsKeyEnd(doc)
           /\ IsPrefix(entries, Decoded(doc.elems))

\* C6: for the document {"results":[]} under any fragmentation, onNewEntry is
\* never called and the state machine ends in DONE.
C6_EmptyResults ==
    doc.text = MakeDoc(<<>>, <<>>)
        => /\ entries = <<>>
           /\ Finished => state.type = "DONE"

\* C6 witness: {"results":[]} delivered in several fragments, to the end.
C6_Witness ==
    /\ doc.text = MakeDoc(<<>>, <<>>)
    /\ Finished
    /\ chunks = ChunkCap
    /\ state.type = "DONE"

\* C7: for every valid top-level object without a "results" key, zero keys
\* included, processing the whole document ends in DONE with no onNewEntry
\* call.  Stated for delivery as a single fragment, a case of the claim.
C7_NoResultsEndsDone ==
    (Finished /\ chunks = 1 /\ doc.kind = "noresults")
        => state.type = "DONE" /\ entries = <<>>

\* The cursor moving from a to b passes over whitespace only: no token is
\* consumed.
NoTokenBetween(buf, a, b) == \A i \in a..(b - 1) : IsWhitespace(At(buf, i))

\* C8: once a step has met a token that does not match what its state
\* requires, no later step of any later fragment changes the parse state,
\* advances the cursor over a token or calls onNewEntry.
C8_MismatchIsFatal ==
    [][mismatch
        => /\ state' = state
           /\ entries' = entries
           /\ NoTokenBetween(buffer', position, position')]_vars

\* C9: once JSON.parse has rejected a collected slice, no later step of any
\* later fragment consumes a token, changes the parse state or calls
\* onNewEntry.
C9_DecodeFailureIsFatal ==
    [][decodeFailed
        => /\ state' = state
           /\ entries' = entries
           /\ NoTokenBetween(buffer', position, position')]_vars

\* C10 as claimed: whenever nextToken returns null the cursor equals its value
\* immediately before the call, also when whitespace precedes the failing
\* position.
C10_NullRestoresCursor == lastToken = Null => position = callPos

\* C10 amended: whenever nextToken returns null the cursor has moved over
\* nothing but the whitespace in front of the failing position: it is at the
\* start of the token that failed and equals its value before the call when
\* no whitespace precedes.
C10_NullKeepsTokenStart ==
    lastToken = Null
        => /\ callPos <= position
           /\ \A i \in callPos..(position - 1) : IsWhitespace(At(buffer, i))

\* C10 witness: nextToken returned null on an unfinished string or number
\* that follows whitespace.
C10_Witness ==
    /\ lastToken = Null
    /\ callPos < position
    /\ position < Len(buffer)
    /\ At(buffer, position) \in {"\"", "1", "-"}

RECURSIVE TokensFrom(_, _)
\* The tokens nextToken returns on buffer buf from cursor pos until it
\* returns null.
TokensFrom(buf, pos) ==
    With(nextToken(buf, pos), LAMBDA r :
        IF r.tok = Null THEN <<>> ELSE <<r.tok>> \o TokensFrom(buf, r.pos))

\* C11: failed attempts leave no trace in later tokens: however a text is
\* split into fragments and whenever nextToken is called, the non-null tokens
\* returned so far begin the sequence returned when the whole text is added
\* at once, and are that sequence once the text is complete and nextToken
\* has nothing more to return.
C11_FailedAttemptsLeaveNoTrace ==
    /\ IsPrefix(entries, TokensFrom(doc.text, 0))
    /\ (fed = Len(doc.text) /\ nextToken(buffer, position).tok = Null)
            => entries = TokensFrom(doc.text, 0)

\* C11 witness: an attempt failed on the beginning of a token that was cut by
\* the end of a fragment, and after the rest arrived the call from the same
\* cursor returned the last token of the whole text.
C11_Witness ==
    /\ fed = Len(doc.text)
    /\ chunks = ChunkCap
    /\ lastNull.pos >= 0
    /\ lastNull.len > lastNull.pos
    /\ lastNull.len < Len(buffer)
    /\ lastToken # Null
    /\ callPos = lastNull.pos
    /\ entries = TokensFrom(doc.text, 0)

\* The buffer as it was when the last null was returned.
BufferAtNull == SubSeq(buffer, 1, lastNull.len)

\* Where the digits of the number that starts at position s of buf begin:
\* after its minus sign, if it has one.
DigitsStart(buf, s) == IF HasCharAt(buf, s, {"-"}) THEN s + 1 ELSE s

\* A number starts at position s of buf and its minus sign and digits run
\* exactly to the end of buf.
NumericRunToEnd(buf, s) ==
    /\ s < Len(buf)
    /\ At(buf, s) = "-" \/ IsDigit(At(buf, s))
    /\ DigitRun(buf, DigitsStart(buf, s)) = Len(buf)

\* A character that can be part of a number.
IsNumberChar(ch) == IsDigit(ch) \/ ch \in {"-", "+", ".", "e", "E"}

\* The integer whose minus sign and digits are buf[s..e).
IntegerValue(buf, s, e) ==
    Normalize((IF At(buf, s) = "-" THEN 0 - 1 ELSE 1)
                  * DigitsValue(buf, DigitsStart(buf, s), e, 0), 0)

\* C12: a call of nextToken on a numeric run that extends exactly to the end
\* of the buffer returns null and leaves the cursor at the number's first
\* character; and when such a call has failed and a later fragment has
\* brought the rest of the digits and a character that ends the number, the
\* next call returns the number token for all the digits, with the cursor
\* just past them.
C12_PartialNumberResumes ==
    /\ NumericRunToEnd(buffer, skipWhitespace(buffer, position))
        => nextToken(buffer, position)
               = [tok |-> Null, pos |-> skipWhitespace(buffer, position)]
    /\ ( /\ lastNull.pos >= 0
         /\ position = lastNull.pos
         /\ NumericRunToEnd(BufferAtNull, position)
         /\ DigitRun(buffer, DigitsStart(buffer, position)) < Len(buffer)
         /\ DigitRun(buffer, DigitsStart(buffer, position)) > DigitsStart(buffer, position)
         /\ ~IsNumberChar(At(buffer, DigitRun(buffer, DigitsStart(buffer, position)))) )
        => nextToken(buffer, position)
               = [tok |-> NumberToken(IntegerValue(buffer, position,
                              DigitRun(buffer, DigitsStart(buffer, position)))),
                  pos |-> DigitRun(buffer, DigitsStart(buffer, position))]

\* The end of the fraction of the number at position s of buf: past its
\* minus sign, its digits and, if a decimal point follows, the point and the
\* digits after it.
FractionEnd(buf, s) ==
    IF HasCharAt(buf, DigitRun(buf, DigitsStart(buf, s)), {"."})
    THEN DigitRun(buf, DigitRun(buf, DigitsStart(buf, s)) + 1)
    ELSE DigitRun(buf, DigitsStart(buf, s))

\* Where the digits of the exponent that begins (with e or E) at x start.
ExponentDigits(buf, x) == IF HasCharAt(buf, x + 1, {"+", "-"}) THEN x + 2 ELSE x + 1

\* The end of the number at position s of buf: past its exponent, if any.
NumberEnd(buf, s) ==
    IF HasCharAt(buf, FractionEnd(buf, s), {"e", "E"})
    THEN DigitRun(buf, ExponentDigits(buf, FractionEnd(buf, s)))
    ELSE FractionEnd(buf, s)

\* A number of the grammar (optional minus, digits, optional point and
\* digits, optional exponent with optional sign) starts at position s of buf
\* and is followed in buf by a character that ends it.
IsNumberAt(buf, s) ==
    /\ DigitRun(buf, DigitsStart(buf, s)) > DigitsStart(buf, s)
    /\ HasCharAt(buf, DigitRun(buf, DigitsStart(buf, s)), {"."})
           => FractionEnd(buf, s) > DigitRun(buf, DigitsStart(buf, s)) + 1
    /\ HasCharAt(buf, FractionEnd(buf, s), {"e", "E"})
           => NumberEnd(buf, s) > ExponentDigits(buf, FractionEnd(buf, s))
    /\ NumberEnd(buf, s) < Len(buf)
    /\ ~IsNumberChar(At(buf, NumberEnd(buf, s)))

\* C13: where a number of the grammar, negative numbers included, is followed
\* by a character that ends it, nextToken returns the number token with its
\* numeric value and leaves the cursor just past the number.
C13_NumberGrammar ==
    IsNumberAt(buffer, skipWhitespace(buffer, position))
        => nextToken(buffer, position)
               = [tok |-> NumberToken(Number(Slice(buffer,
                              skipWhitespace(buffer, position),
                              NumberEnd(buffer, skipWhitespace(buffer, position)))).value),
                  pos |-> NumberEnd(buffer, skipWhitespace(buffer, position))]

RECURSIVE StringFrom(_, _, _, _)
\* The string that opens at position start of buf, read from p on with every
\* escape taken for exactly its own characters (two, or six for \uXXXX):
\* its token and the position just past its closing quote, or null and
\* start when buf ends before the string does.
StringFrom(buf, start, p, result) ==
    IF p >= Len(buf) THEN [tok |-> Null, pos |-> start]
    ELSE IF At(buf, p) = "\"" THEN [tok |-> StringToken(result), pos |-> p + 1]
    ELSE IF At(buf, p) # "\\"
        THEN StringFrom(buf, start, p + 1, Append(result, CharCode(At(buf, p))))
    ELSE IF p + 1 >= Len(buf) THEN [tok |-> Null, pos |-> start]
    ELSE IF At(buf, p + 1) # "u"
        THEN StringFrom(buf, start, p + 2, Append(result, Unescape(At(buf, p + 1))))
    ELSE IF p + 5 >= Len(buf) \/ ~IsHex4(Slice(buf, p + 2, p + 6))
        THEN [tok |-> Null, pos |-> start]
    ELSE StringFrom(buf, start, p + 6,
                    Append(result, FromCharCode(Slice(buf, p + 2, p + 6))))

C15_PartialStringResumes ==
    /\ ( /\ HasCharAt(buffer, skipWhitespace(buffer, position), {"\""})
         /\ StringFrom(buffer, skipWhitespace(buffer, position),
                       skipWhitespace(buffer, position) + 1, <<>>).tok = Null )
        => nextToken(buffer, position)
               = [tok |-> Null, pos |-> skipWhitespace(buffer, position)]
    /\ ( /\ lastNull.pos >= 0
         /\ position = lastNull.pos
         /\ lastNull.len > position
         /\ At(buffer, position) = "\""
         /\ StringFrom(BufferAtNull, position, position + 1, <<>>).tok = Null
         /\ StringFrom(buffer, position, position + 1, <<>>).tok # Null )
        => nextToken(buffer, position)
               = StringFrom(buffer, position, position + 1, <<>>)

\* The three literals and the values of their tokens.
Literals == {[text |-> LitTrue, value |-> "true"], [text |-> LitFalse, value |-> "false"],
             [text |-> LitNull, value |-> "null"]}

\* What buf holds from position s to its end is a beginning of the literal
\* text, neither empty nor the whole of it.
ProperPrefixAtEnd(buf, s, text) ==
    /\ s < Len(buf)
    /\ Len(buf) - s < Len(text)
    /\ Slice(buf, s, Len(buf)) = SubSeq(text, 1, Len(buf) - s)

\* The whole of the literal text is in buf at position s.
LiteralAt(buf, s, text) ==
    /\ s + Len(text) <= Len(buf)
    /\ SubSeq(buf, s + 1, s + Len(text)) = text

\* C16 as claimed: on a proper prefix of true, false or null at the end of
\* the buffer nextToken returns null and the cursor is where it was before
\* the call; on the whole literal it returns the value token and the cursor
\* advances by the literal's length.
C16_LiteralPrefixKeepsCursor ==
    \A l \in Literals :
        /\ ProperPrefixAtEnd(buffer, skipWhitespace(buffer, position), l.text)
            => nextToken(buffer, position) = [tok |-> Null, pos |-> position]
        /\ LiteralAt(buffer, skipWhitespace(buffer, position), l.text)
            => nextToken(buffer, position)
                   = [tok |-> ValueToken(l.value),
                      pos |-> skipWhitespace(buffer, position) + Len(l.text)]

\* C16 amended: on a proper prefix of true, false or null at the end of the
\* buffer nextToken returns null and the cursor is at the first character of
\* the prefix, having moved over nothing but the whitespace before it; on
\* the whole literal it returns the value token and the cursor is just past
\* the literal.
C16_LiteralPrefixKeepsStart ==
    \A l \in Literals :
        /\ ProperPrefixAtEnd(buffer, skipWhitespace(buffer, position), l.text)
            => nextToken(buffer, position)
                   = [tok |-> Null, pos |-> skipWhitespace(buffer, position)]
        /\ LiteralAt(buffer, skipWhitespace(buffer, position), l.text)
            => nextToken(buffer, position)
                   = [tok |-> ValueToken(l.value),
                      pos |-> skipWhitespace(buffer, position) + Len(l.text)]

\* C16 witness: nextToken failed on a proper prefix of a literal that follows
\* whitespace, and the call made after the remaining characters arrived
\* returned the literal's value token from the same cursor.
C16_Witness ==
    /\ lastToken.type = "value"
    /\ lastNull.pos > 0
    /\ callPos = lastNull.pos
    /\ lastNull.len > lastNull.pos
    /\ lastNull.len < position
    /\ \E l \in Literals : ProperPrefixAtEnd(BufferAtNull, lastNull.pos, l.text)

\* C17: a step of the state machine that declines while a valid document is
\* being delivered leaves the parse state, bracketCount and startPosition
\* included, as it was and consumes no token: the cursor moves over
\* whitespace at most, so that a sibling key, its colon or part of its value
\* is never consumed by a step that then declines for lack of data.
C17_DeclineLeavesNoTrace ==
    [][(/\ pc = "drain"
        /\ doc.kind = "results"
        /\ ~processNextStep(buffer, position, state).progress)
        => /\ state' = state
           /\ NoTokenBetween(buffer, position, position')]_vars

\* C18: the loop of parseChunk ends: no turn of it moves the cursor back or
\* past the end of the buffer, and a turn after which the loop goes on has
\* moved the cursor forward, so the loop makes at most as many turns as the
\* buffer has characters left, whatever the input.
C18_DrainAdvances ==
    [][pc = "drain"
        => /\ position <= position'
           /\ position' <= Len(buffer)
           /\ pc' = "drain" => position < position']_vars

\* C18 witness: the loop has ended on a malformed document delivered in
\* full, after a step met a token of the wrong type, with text left unread.
C18_Witness ==
    /\ pc = "idle"
    /\ doc.kind = "invalid"
    /\ fed = Len(doc.text)
    /\ mismatch
    /\ 0 < position
    /\ position < Len(buffer)

\* C19: between steps, a state of type PARSING_ARRAY_ENTRY has a bracketCount
\* of at least 1, on every input: the step that brings it to 0 leaves
\* PARSING_ARRAY_ENTRY.
C19_BracketCountPositive ==
    state.type = "PARSING_ARRAY_ENTRY" => state.bracketCount >= 1

\* C20: once the state is DONE the tokenizer is asked for nothing more: no
\* later step, of this or of a later parseChunk call, moves the cursor.
C20_DoneRequestsNoToken ==
    [][state.type = "DONE" => position' = position]_vars

\* C21: DONE is absorbing: once the state is DONE no step of this or of a
\* later fragment changes it or calls onNewEntry, whatever text follows the
\* results array.
C21_DoneIsAbsorbing ==
    [][state.type = "DONE" => state' = state /\ entries' = entries]_vars

\* C21 witness: the results array of a document was closed in one fragment
\* and a second key with an array of objects followed; at the end the state
\* is DONE and only the element of the first array has been passed on.
C21_Witness ==
    /\ doc.text = DocTrailingKey
    /\ Finished
    /\ chunks = ChunkCap
    /\ state.type = "DONE"
    /\ entries = Decoded(<<ElEmpty>>)
    /\ position < Len(buffer)

Expecting ==
    {[in |-> "EXPECT_OBJECT_START", token |-> "begin-object",
      to |-> "SCANNING_FOR_RESULTS"],
     [in |-> "EXPECT_COLON_AFTER_RESULTS", token |-> "name-separator",
      to |-> "EXPECT_ARRAY_START"],
     [in |-> "EXPECT_ARRAY_START", token |-> "begin-array",
      to |-> "PARSING_RESULTS_ARRAY"]}

\* C23: in EXPECT_OBJECT_START, EXPECT_COLON_AFTER_RESULTS and
\* EXPECT_ARRAY_START a step that peeks the expected token consumes it and
\* moves to the next state; a step that peeks any other token consumes
\* nothing and leaves the state as it is.
C23_ExpectingStates ==
    [][\A e \in Expecting :
        (/\ pc = "drain"
         /\ state.type = e.in
         /\ nextToken(buffer, position).tok # Null)
        => IF nextToken(buffer, position).tok.type = e.token
           THEN /\ state' = St(e.to)
                /\ position' = nextToken(buffer, position).pos
           ELSE /\ state' = state
                /\ position' = position]_vars

\* C23 witness: a step has met a token other than the expected one in one of
\* the three states, and the token is still the next one in the buffer.
C23_Witness ==
    /\ mismatch
    /\ pc = "idle"
    /\ \E e \in Expecting :
        /\ state.type = e.in
        /\ nextToken(buffer, position).tok \notin {Null, Tok(e.token)}
    /\ \A i \in 0..(position - 1) : ~IsWhitespace(At(buffer, i))

\* C24: the cursor is always between 0 and the length of the buffer, and no
\* step of the state machine (and no delivery of a fragment) leaves it
\* smaller than it was.
C24_CursorInBuffer ==
    /\ [](0 <= position /\ position <= Len(buffer))
    /\ [][position <= position']_vars

\* C24 witness: after several fragments the loop has ended with the cursor
\* at the very end of the buffer.
C24_Witness ==
    /\ pc = "idle"
    /\ chunks = ChunkCap
    /\ fed = Len(doc.text)
    /\ position = Len(buffer)
    /\ state.type = "DONE"

\* The offset of the opening brace of the k-th element of document d.
BracePos(d, k) == skipWhitespace(d.text, ElemEnd(d, k) - Len(d.elems[k]))

\* C25: when an element completes (the closing brace that brings bracketCount
\* to 0 is consumed) the slice handed to JSON.parse is the element's own
\* text: it starts at the element's opening brace or in the whitespace before
\* it, and ends just past the matching closing brace; braces inside the
\* element's strings do not count.  Stated for the
\* documents whose first key is "results", a case of the claim.
C25_SliceIsElement ==
    [][(/\ pc = "drain"
        /\ doc.kind = "results"
        /\ doc.sib = <<>>
        /\ state.type = "PARSING_ARRAY_ENTRY"
        /\ state.bracketCount = 1
        /\ nextToken(buffer, position).tok.type = "end-object")
        => \E k \in 1..Len(doc.elems) :
              /\ skipWhitespace(buffer, state.startPosition) = BracePos(doc, k)
              /\ position' = ElemEnd(doc, k)]_vars

\* The offset of the first element of document d that is not an object: just
\* past the opening bracket of the results array, or past the comma after
\* the last element in front of it.
NonObjectPos(d) ==
    IF d.elems = <<>> THEN ResultsKeyEnd(d) + 2 ELSE ElemEnd(d, Len(d.elems)) + 1

\* C26: when the results array holds an element that does not start with a
\* brace, the cursor never passes the front of that element, DONE is never
\* reached and onNewEntry is called for the elements in front of it only;
\* once the document is complete the state is PARSING_RESULTS_ARRAY with the
\* cursor in front of the element, whatever the fragments.
C26_NonObjectElementBlocks ==
    doc.kind = "nonobject"
        => /\ position <= NonObjectPos(doc)
           /\ state.type # "DONE"
           /\ IsPrefix(entries, Decoded(doc.elems))
           /\ Finished
                => /\ state.type = "PARSING_RESULTS_ARRAY"
                   /\ position = NonObjectPos(doc)
                   /\ entries = Decoded(doc.elems)

\* C26 witness: the document {"results":[{},1,{}]} has been delivered in
\* several fragments; the first element has been passed on and the machine
\* waits in front of the 1 with the rest of the text unread.
C26_Witness ==
    /\ doc.text = DocScalarElement
    /\ Finished
    /\ chunks = ChunkCap
    /\ state.type = "PARSING_RESULTS_ARRAY"
    /\ entries = Decoded(<<ElEmpty>>)
    /\ At(buffer, position) = "1"
    /\ mismatch

\* The text is an object or an array with at least one member that
\* JSON.parse accepts.
NonEmptyContainer(text) ==
    /\ JSONParse(text).ok
    /\ Len(JSONParse(text).value) > 2

\* C27: in the one-shot Parser, on a valid object or array with at least one
\* member, a peek at any place of the text leaves the cursor where it was
\* before the peek, whatever the token, and parse returns the full value
\* tree instead of throwing.
C27_ParserPeekKeepsCursor ==
    (pc # "idle" /\ NonEmptyContainer(doc.text))
        => /\ \A p \in 0..Len(buffer) :
                nextToken(buffer, p).tok # Null
                    => ParserNextSignificantToken(buffer, p, TRUE).pos = p
           /\ pc = "returned"
           /\ entries = <<JSONParse(doc.text).value>>

====
